---- MODULE Spec2Model ----
(***************************************************************************)
(* FileReader (components/script/dom/filereader.rs).                       *)
(*                                                                         *)
(* The reader lives on one script thread.  A read spawns a thread that     *)
(* queues three tasks on the file reading task source; the script thread  *)
(* runs them one at a time.  Every dispatch_progress_event fires the       *)
(* event synchronously, so a listener may call the reader's methods in   *)
(* the middle of a handler: the handlers are cut at their dispatches and   *)
(* the frames under way are kept on a call stack.                          *)
(*                                                                         *)
(* Text (DOMString, String) is a sequence of code points, bytes are a      *)
(* sequence of 0..255, Option<T> is a sequence of length 0 or 1.           *)
(***************************************************************************)
EXTENDS Integers, Sequences, FiniteSets, TLC

\* Bounds of the exploration.
MaxReads == 2
MaxAborts == 2
MaxErrors == 1
MaxDepth == 2

None == <<>>
Some(x) == <<x>>

Last(s) == s[Len(s)]
Front(s) == SubSeq(s, 1, Len(s) - 1)

(***************************************************************************)
(* Text constants (code points).                                           *)
(***************************************************************************)
STR_data == <<100, 97, 116, 97, 58>>                    \* "data:"
STR_base64 == <<98, 97, 115, 101, 54, 52, 44>>          \* "base64,"
STR_semicolon == <<59>>                                 \* ";"
STR_text_plain == <<116, 101, 120, 116, 47, 112, 108, 97, 105, 110>>  \* "text/plain"
STR_utf8 == <<117, 116, 102, 45, 56>>                   \* "utf-8"
STR_utf16 == <<117, 116, 102, 45, 49, 54>>              \* "utf-16"
STR_utf16le == <<117, 116, 102, 45, 49, 54, 108, 101>>  \* "utf-16le"
STR_utf16be == <<117, 116, 102, 45, 49, 54, 98, 101>>   \* "utf-16be"
STR_charset == <<99, 104, 97, 114, 115, 101, 116>>      \* "charset"

(***************************************************************************)
(* base64::encode (standard alphabet, padded).                             *)
(***************************************************************************)
B64Char(i) ==
    IF i < 26 THEN 65 + i
    ELSE IF i < 52 THEN 97 + (i - 26)
    ELSE IF i < 62 THEN 48 + (i - 52)
    ELSE IF i = 62 THEN 43 ELSE 47

RECURSIVE base64_encode(_)
base64_encode(b) ==
    IF Len(b) = 0 THEN <<>>
    ELSE IF Len(b) = 1 THEN
        << B64Char(b[1] \div 4), B64Char((b[1] % 4) * 16), 61, 61 >>
    ELSE IF Len(b) = 2 THEN
        << B64Char(b[1] \div 4),
           B64Char((b[1] % 4) * 16 + b[2] \div 16),
           B64Char((b[2] % 16) * 4), 61 >>
    ELSE
        << B64Char(b[1] \div 4),
           B64Char((b[1] % 4) * 16 + b[2] \div 16),
           B64Char((b[2] % 16) * 4 + b[3] \div 64),
           B64Char(b[3] % 64) >> \o base64_encode(SubSeq(b, 4, Len(b)))

dataurl_format_no_mime(blob_contents, blob_type) ==
    STR_data \o STR_base64 \o base64_encode(blob_contents)

dataurl_format(blob_contents, blob_type) ==
    IF blob_type = <<>>
    THEN STR_data \o STR_base64 \o base64_encode(blob_contents)
    ELSE STR_data \o blob_type \o STR_semicolon \o STR_base64
             \o base64_encode(blob_contents)

(***************************************************************************)
(* Encoding determination and decoding (text_decode).                      *)
(***************************************************************************)
AsciiLower(c) == IF c >= 65 /\ c <= 90 THEN c + 32 ELSE c
LowerStr(s) == [i \in 1..Len(s) |-> AsciiLower(s[i])]

IsSpace(c) == c \in {9, 10, 12, 13, 32}

RECURSIVE TrimLeft(_)
TrimLeft(s) == IF Len(s) > 0 /\ IsSpace(s[1]) THEN TrimLeft(Tail(s)) ELSE s

RECURSIVE TrimRight(_)
TrimRight(s) ==
    IF Len(s) > 0 /\ IsSpace(s[Len(s)]) THEN TrimRight(Front(s)) ELSE s

\* Encoding::for_label: the label, trimmed and lower-cased, looked up in the
\* table of the Encoding Standard (the rows the model's labels can hit).
Encoding_for_label(label) ==
    LET l == LowerStr(TrimRight(TrimLeft(label))) IN
    IF l = STR_utf8 THEN Some("UTF-8")
    ELSE IF l = STR_utf16 \/ l = STR_utf16le THEN Some("UTF-16LE")
    ELSE IF l = STR_utf16be THEN Some("UTF-16BE")
    ELSE None

\* index of the first c in s at or after i, Len(s)+1 when there is none
RECURSIVE IndexFrom(_, _, _)
IndexFrom(s, c, i) ==
    IF i > Len(s) THEN Len(s) + 1
    ELSE IF s[i] = c THEN i ELSE IndexFrom(s, c, i + 1)

\* The parameters of a media type "type/subtype;k=v;k=v": <<name, value>> pairs.
RECURSIVE MimeParams(_)
MimeParams(s) ==
    IF Len(s) = 0 THEN <<>>
    ELSE LET stop == IndexFrom(s, 59, 1)
             part == TrimLeft(SubSeq(s, 1, stop - 1))
             eq == IndexFrom(part, 61, 1)
             rest == IF stop > Len(s) THEN <<>> ELSE SubSeq(s, stop + 1, Len(s))
         IN  << << LowerStr(SubSeq(part, 1, eq - 1)),
                   IF eq > Len(part) THEN <<>> ELSE SubSeq(part, eq + 1, Len(part)) >> >>
                 \o MimeParams(rest)

\* blob_type.parse::<Mime>(): None unless it reads type "/" subtype
\* (";" parameters); else the parameters.
MimeParse(blob_type) ==
    LET stop == IndexFrom(blob_type, 59, 1)
        essence == SubSeq(blob_type, 1, stop - 1)
        slash == IndexFrom(essence, 47, 1)
    IN  IF slash <= 1 \/ slash >= Len(essence) THEN None
        ELSE Some(IF stop > Len(blob_type) THEN <<>>
                  ELSE MimeParams(SubSeq(blob_type, stop + 1, Len(blob_type))))

MimeCharset(params) ==
    LET hits == SelectSeq(params, LAMBDA p : p[1] = STR_charset) IN
    IF Len(hits) = 0 THEN None ELSE Some(hits[1][2])

text_encoding_mime_first(blob_type, blob_label) ==
    LET by_label == IF blob_label = None THEN None
                    ELSE Encoding_for_label(blob_label[1])
        mime == MimeParse(blob_type)
        cs == IF mime = None THEN None ELSE MimeCharset(mime[1])
        by_mime == IF cs = None THEN None ELSE Encoding_for_label(cs[1])
    IN  IF by_mime # None THEN by_mime[1]
        ELSE IF by_label # None THEN by_label[1]
        ELSE "UTF-8"

\* The encoding text_decode settles on (steps 1 to 6).
text_encoding(blob_type, blob_label) ==
    LET by_label == IF blob_label = None THEN None
                    ELSE Encoding_for_label(blob_label[1])
        mime == MimeParse(blob_type)
        cs == IF mime = None THEN None ELSE MimeCharset(mime[1])
        by_mime == IF cs = None THEN None ELSE Encoding_for_label(cs[1])
    IN  IF by_label # None THEN by_label[1]
        ELSE IF by_mime # None THEN by_mime[1]
        ELSE "UTF-8"

REPLACEMENT == 65533

\* UTF-8 decoding with replacement, for bytes below 0xE0 (one and two byte
\* sequences); the model's bytes stay in that range.
RECURSIVE decode_utf8(_)
decode_utf8(b) ==
    IF Len(b) = 0 THEN <<>>
    ELSE IF b[1] < 128 THEN <<b[1]>> \o decode_utf8(Tail(b))
    ELSE IF b[1] >= 194 /\ b[1] <= 223 /\ Len(b) >= 2 /\ b[2] >= 128 /\ b[2] <= 191
         THEN <<(b[1] - 192) * 64 + (b[2] - 128)>> \o decode_utf8(SubSeq(b, 3, Len(b)))
    ELSE <<REPLACEMENT>> \o decode_utf8(Tail(b))

\* UTF-16 decoding with replacement, for code units outside the surrogates.
RECURSIVE decode_utf16(_, _)
decode_utf16(b, le) ==
    IF Len(b) = 0 THEN <<>>
    ELSE IF Len(b) = 1 THEN <<REPLACEMENT>>
    ELSE LET u == IF le THEN b[2] * 256 + b[1] ELSE b[1] * 256 + b[2] IN
         <<IF u >= 55296 /\ u <= 57343 THEN REPLACEMENT ELSE u>>
             \o decode_utf16(SubSeq(b, 3, Len(b)), le)

HasPrefix(b, p) == Len(b) >= Len(p) /\ SubSeq(b, 1, Len(p)) = p

decode_as(enc, b) ==
    IF enc = "UTF-8" THEN decode_utf8(b)
    ELSE decode_utf16(b, enc = "UTF-16LE")

\* Encoding::decode: a byte order mark at the start of the input overrides
\* the encoding and is removed.
Encoding_decode(enc, b) ==
    IF HasPrefix(b, <<239, 187, 191>>) THEN decode_as("UTF-8", SubSeq(b, 4, Len(b)))
    ELSE IF HasPrefix(b, <<255, 254>>) THEN decode_as("UTF-16LE", SubSeq(b, 3, Len(b)))
    ELSE IF HasPrefix(b, <<254, 255>>) THEN decode_as("UTF-16BE", SubSeq(b, 3, Len(b)))
    ELSE decode_as(enc, b)

text_decode(blob_contents, blob_type, blob_label) ==
    Encoding_decode(text_encoding(blob_type, blob_label), blob_contents)

(***************************************************************************)
(* Types of the reader.                                                    *)
(***************************************************************************)
FileReaderFunction == {"ReadAsText", "ReadAsDataUrl", "ReadAsArrayBuffer"}
FileReaderReadyState == {"Empty", "Loading", "Done"}

ReadMetaData(blobtype, label, function) ==
    [blobtype |-> blobtype, label |-> label, function |-> function]

NoData == ReadMetaData(<<>>, None, "ReadAsText")

String(s) == [tag |-> "String", val |-> s]
ArrayBuffer(bytes) == [tag |-> "ArrayBuffer", val |-> bytes]

\* The blobs a caller reads: get_bytes() is Some(bytes) or fails (None).
BlobAB == [bytes |-> Some(<<65, 66>>), type |-> STR_text_plain]
BlobFail == [bytes |-> None, type |-> <<>>]
BlobsAsText == {BlobAB}
BlobsAsDataURL == {BlobAB}
BlobsAsArrayBuffer == {BlobFail}
Labels == {None}
DOMErrorNames == {"NotReadableError"}

VARIABLES
    ready_state,     \* FileReader.ready_state
    error,           \* FileReader.error: Option<DOMErrorName>
    result,          \* FileReader.result: Option<FileReaderResult>
    generation_id,   \* FileReader.generation_id
    threads,         \* the spawned "file reader async operation" threads
    queue,           \* the file reading task source, FIFO
    stack,           \* the script thread's handlers under way, innermost last
    signals,         \* the events fired so far, each with the call that fired it
    ret,             \* what the last call of read returned
    naborts,         \* the calls of Abort so far
    nerrors,         \* the ProcessReadError tasks queued so far
    hist             \* history of the operations, for the statements below

vars == << ready_state, error, result, generation_id, threads, queue, stack,
           signals, ret, naborts, nerrors, hist >>

reader == << ready_state, error, result, generation_id >>

Init ==
    /\ ready_state = "Empty"
    /\ error = None
    /\ result = None
    /\ generation_id = 0
    /\ threads = <<>>
    /\ queue = <<>>
    /\ stack = <<>>
    /\ signals = <<>>
    /\ ret = "none"
    /\ naborts = 0
    /\ nerrors = 0
    /\ hist = [completed |-> {}, returned |-> {}, aborted |-> {},
               interfered |-> {}, abort_from |-> <<>>, failed |-> {}]

(***************************************************************************)
(* Helpers of the handlers.                                                *)
(***************************************************************************)
OpSrc(i) == <<"op", i>>
AbortSrc(k) == <<"abort", k>>

Frame(fn, at, gen_id, src) == [fn |-> fn, at |-> at, gen_id |-> gen_id, src |-> src]

Task(task, gen_id, data, blob_contents, err, op) ==
    [task |-> task, gen_id |-> gen_id, data |-> data,
     blob_contents |-> blob_contents, error |-> err, op |-> op]

\* fr.dispatch_progress_event(type_, 0, None), fired by the call src
dispatch_progress_event(type_, src) == Append(signals, [type |-> type_, src |-> src])

\* the macro return_on_abort!(): TRUE when the handler returns
return_on_abort_never(gen_id) == FALSE

return_on_abort(gen_id) == gen_id # generation_id

terminate_ongoing_reading_keeps(prev_id) == prev_id

\* prev_id + 1 on a u32: the bounds keep the identifier far below 2^32, where
\* the addition would overflow
terminate_ongoing_reading(prev_id) == prev_id + 1

unwrap_or_unread(opt, default) == IF opt = None THEN <<0>> ELSE opt[1]

unwrap_or(opt, default) == IF opt = None THEN default ELSE opt[1]

perform_readasdataurl(data, bytes) == String(dataurl_format(bytes, data.blobtype))

perform_readastext(data, blob_bytes) ==
    String(text_decode(blob_bytes, data.blobtype, data.label))

perform_readasarraybuffer(data, bytes) == ArrayBuffer(bytes)

\* the loads whose listeners are running: a call made now is made by one of them
LoadsUnderWay ==
    {stack[i].src : i \in {j \in 1..Len(stack) :
                              stack[j].fn = "process_read_eof" /\ stack[j].at = "load"}}

(***************************************************************************)
(* read (ReadAsText, ReadAsDataURL, ReadAsArrayBuffer).  It fires no       *)
(* event, so it runs in one step, from a task of the page or from a        *)
(* listener.                                                               *)
(***************************************************************************)
read_accepts_when_loading == FALSE

read_invalid_state == ready_state = "Loading"

read(function, blob, label) ==
    IF read_invalid_state
    THEN /\ ret' = "InvalidState"
         /\ UNCHANGED << ready_state, error, result, generation_id, threads,
                         queue, stack, signals, naborts, nerrors, hist >>
    ELSE /\ Len(threads) < MaxReads
         /\ ready_state' = "Loading"
         /\ threads' = Append(threads,
                 [gen_id |-> generation_id,
                  data |-> ReadMetaData(blob.type, label, function),
                  blob_contents |-> unwrap_or(blob.bytes, <<>>),
                  pc |-> 1])
         /\ ret' = "Ok"
         /\ hist' = [hist EXCEPT
                        !.interfered = @ \cup LoadsUnderWay,
                        !.failed = IF blob.bytes = None
                                   THEN @ \cup {Len(threads) + 1} ELSE @]
         /\ UNCHANGED << error, result, generation_id, queue, stack, signals,
                         naborts, nerrors >>

ReadAsArrayBuffer == \E blob \in BlobsAsArrayBuffer : read("ReadAsArrayBuffer", blob, None)

ReadAsDataURL == \E blob \in BlobsAsDataURL : read("ReadAsDataUrl", blob, None)

ReadAsText == \E blob \in BlobsAsText, label \in Labels : read("ReadAsText", blob, label)

(***************************************************************************)
(* The thread of a read: it queues its three tasks, one at a time.         *)
(***************************************************************************)
read_operation_tasks_eof_first == <<"ProcessReadEOF", "ProcessRead", "ProcessReadData">>

read_operation_tasks == <<"ProcessRead", "ProcessReadData", "ProcessReadEOF">>

perform_annotated_read_operation ==
    \E i \in 1..Len(threads) :
        LET t == threads[i]
            kind == read_operation_tasks[t.pc]
        IN  /\ t.pc <= Len(read_operation_tasks)
            /\ queue' = Append(queue,
                    IF kind = "ProcessReadEOF"
                    THEN Task(kind, t.gen_id, t.data, t.blob_contents, "none", i)
                    ELSE Task(kind, t.gen_id, NoData, <<>>, "none", i))
            /\ threads' = [threads EXCEPT ![i].pc = @ + 1]
            /\ UNCHANGED << ready_state, error, result, generation_id, stack,
                            signals, ret, naborts, nerrors, hist >>

\* A read that fails queues ProcessReadError in place of ProcessReadEOF.
queue_read_error ==
    \E i \in 1..Len(threads), e \in DOMErrorNames :
        LET t == threads[i] IN
            /\ t.pc = Len(read_operation_tasks)
            /\ nerrors < MaxErrors
            /\ nerrors' = nerrors + 1
            /\ queue' = Append(queue, Task("ProcessReadError", t.gen_id, NoData, <<>>, e, i))
            /\ threads' = [threads EXCEPT ![i].pc = Len(read_operation_tasks) + 1]
            /\ UNCHANGED << ready_state, error, result, generation_id, stack,
                            signals, ret, naborts, hist >>

(***************************************************************************)
(* The script thread runs the task at the head of the queue when no        *)
(* handler is under way.  A handler runs up to the event it fires; the     *)
(* step that follows is the return of that dispatch.                       *)
(***************************************************************************)
TaskReady(kind) == stack = <<>> /\ queue # <<>> /\ Head(queue).task = kind

Top == Last(stack)

AtDispatch(fn, at) == stack # <<>> /\ Top.fn = fn /\ Top.at = at

Returned(src) == [hist EXCEPT !.returned = @ \cup {src}]

\* process_read: loadstart
process_read ==
    /\ TaskReady("ProcessRead")
    /\ LET task == Head(queue) IN
        /\ queue' = Tail(queue)
        /\ IF return_on_abort(task.gen_id)
           THEN UNCHANGED << stack, signals >>
           ELSE /\ signals' = dispatch_progress_event("loadstart", OpSrc(task.op))
                /\ stack' = <<Frame("process_read", "loadstart", task.gen_id, OpSrc(task.op))>>
    /\ UNCHANGED << ready_state, error, result, generation_id, threads, ret,
                    naborts, nerrors, hist >>

process_read_returns ==
    /\ AtDispatch("process_read", "loadstart")
    /\ stack' = Front(stack)
    /\ UNCHANGED << ready_state, error, result, generation_id, threads, queue,
                    signals, ret, naborts, nerrors, hist >>

\* process_read_data: progress
process_read_data ==
    /\ TaskReady("ProcessReadData")
    /\ LET task == Head(queue) IN
        /\ queue' = Tail(queue)
        /\ IF return_on_abort(task.gen_id)
           THEN UNCHANGED << stack, signals >>
           ELSE /\ signals' = dispatch_progress_event("progress", OpSrc(task.op))
                /\ stack' = <<Frame("process_read_data", "progress", task.gen_id, OpSrc(task.op))>>
    /\ UNCHANGED << ready_state, error, result, generation_id, threads, ret,
                    naborts, nerrors, hist >>

process_read_data_returns ==
    /\ AtDispatch("process_read_data", "progress")
    /\ stack' = Front(stack)
    /\ UNCHANGED << ready_state, error, result, generation_id, threads, queue,
                    signals, ret, naborts, nerrors, hist >>

\* step 8.2 of process_read_eof
process_read_eof_result(data, blob_contents) ==
    IF data.function = "ReadAsDataUrl" THEN perform_readasdataurl(data, blob_contents)
    ELSE IF data.function = "ReadAsText" THEN perform_readastext(data, blob_contents)
    ELSE perform_readasarraybuffer(data, blob_contents)

\* process_read_eof, to the dispatch of load
process_read_eof ==
    /\ TaskReady("ProcessReadEOF")
    /\ LET task == Head(queue) IN
        /\ queue' = Tail(queue)
        /\ IF return_on_abort(task.gen_id)
           THEN UNCHANGED << ready_state, result, stack, signals, hist >>
           ELSE /\ ready_state' = "Done"
                /\ result' = Some(process_read_eof_result(task.data, task.blob_contents))
                /\ signals' = dispatch_progress_event("load", OpSrc(task.op))
                /\ stack' = <<Frame("process_read_eof", "load", task.gen_id, OpSrc(task.op))>>
                /\ hist' = [hist EXCEPT !.completed = @ \cup {task.op}]
    /\ UNCHANGED << error, generation_id, threads, ret, naborts, nerrors >>

\* step 8.4: the check made before loadend is fired
eof_fires_loadend_always == TRUE

eof_fires_loadend == ready_state # "Loading"

\* process_read_eof, from the return of load to the dispatch of loadend, or
\* to the end when loadend is not fired
process_read_eof_load_returns ==
    /\ AtDispatch("process_read_eof", "load")
    /\ IF return_on_abort(Top.gen_id)
       THEN /\ stack' = Front(stack)
            /\ hist' = Returned(Top.src)
            /\ UNCHANGED << signals, generation_id >>
       ELSE IF eof_fires_loadend
       THEN /\ signals' = dispatch_progress_event("loadend", Top.src)
            /\ stack' = [stack EXCEPT ![Len(stack)].at = "loadend"]
            /\ UNCHANGED << generation_id, hist >>
       ELSE /\ generation_id' = terminate_ongoing_reading(generation_id)
            /\ stack' = Front(stack)
            /\ hist' = Returned(Top.src)
            /\ UNCHANGED signals
    /\ UNCHANGED << ready_state, error, result, threads, queue, ret, naborts, nerrors >>

\* process_read_eof, from the return of loadend to the end
process_read_eof_loadend_returns ==
    /\ AtDispatch("process_read_eof", "loadend")
    /\ IF return_on_abort(Top.gen_id)
       THEN UNCHANGED generation_id
       ELSE generation_id' = terminate_ongoing_reading(generation_id)
    /\ stack' = Front(stack)
    /\ hist' = Returned(Top.src)
    /\ UNCHANGED << ready_state, error, result, threads, queue, signals, ret,
                    naborts, nerrors >>

\* process_read_error, to the dispatch of error
process_read_error ==
    /\ TaskReady("ProcessReadError")
    /\ LET task == Head(queue) IN
        /\ queue' = Tail(queue)
        /\ IF return_on_abort(task.gen_id)
           THEN UNCHANGED << ready_state, result, error, stack, signals >>
           ELSE /\ ready_state' = "Done"
                /\ result' = None
                /\ error' = Some(task.error)
                /\ signals' = dispatch_progress_event("error", OpSrc(task.op))
                /\ stack' = <<Frame("process_read_error", "error", task.gen_id, OpSrc(task.op))>>
    /\ UNCHANGED << generation_id, threads, ret, naborts, nerrors, hist >>

process_read_error_error_returns ==
    /\ AtDispatch("process_read_error", "error")
    /\ IF return_on_abort(Top.gen_id)
       THEN /\ stack' = Front(stack)
            /\ hist' = Returned(Top.src)
            /\ UNCHANGED signals
       ELSE /\ signals' = dispatch_progress_event("loadend", Top.src)
            /\ stack' = [stack EXCEPT ![Len(stack)].at = "loadend"]
            /\ UNCHANGED hist
    /\ UNCHANGED << ready_state, error, result, generation_id, threads, queue,
                    ret, naborts, nerrors >>

process_read_error_loadend_returns ==
    /\ AtDispatch("process_read_error", "loadend")
    /\ IF return_on_abort(Top.gen_id)
       THEN UNCHANGED generation_id
       ELSE generation_id' = terminate_ongoing_reading(generation_id)
    /\ stack' = Front(stack)
    /\ hist' = Returned(Top.src)
    /\ UNCHANGED << ready_state, error, result, threads, queue, signals, ret,
                    naborts, nerrors >>

(***************************************************************************)
(* Abort, called by a task of the page or by a listener.                   *)
(***************************************************************************)
Abort_ready_state_always(state) == "Done"

\* step 2
Abort_ready_state(state) == IF state = "Loading" THEN "Done" ELSE state

Abort_events_loadend_first == <<"loadend", "abort">>

\* steps 5 and 6
Abort_events == <<"abort", "loadend">>

\* Abort, to the dispatch of abort
Abort ==
    /\ naborts < MaxAborts
    /\ Len(stack) < MaxDepth
    /\ naborts' = naborts + 1
    /\ ready_state' = Abort_ready_state(ready_state)
    /\ result' = None
    /\ error' = Some("AbortError")
    /\ generation_id' = terminate_ongoing_reading(generation_id)
    /\ signals' = dispatch_progress_event(Abort_events[1], AbortSrc(naborts'))
    /\ stack' = Append(stack, Frame("Abort", "abort", generation_id', AbortSrc(naborts')))
    /\ hist' = [hist EXCEPT
                    !.interfered = @ \cup LoadsUnderWay,
                    !.aborted = IF ready_state = "Loading" THEN @ \cup {Len(threads)} ELSE @,
                    !.abort_from = Append(@, ready_state)]
    /\ UNCHANGED << threads, queue, ret, nerrors >>

\* Abort, from the return of abort to the dispatch of loadend
Abort_abort_returns ==
    /\ AtDispatch("Abort", "abort")
    /\ signals' = dispatch_progress_event(Abort_events[2], Top.src)
    /\ stack' = [stack EXCEPT ![Len(stack)].at = "loadend"]
    /\ UNCHANGED << ready_state, error, result, generation_id, threads, queue,
                    ret, naborts, nerrors, hist >>

Abort_loadend_returns ==
    /\ AtDispatch("Abort", "loadend")
    /\ stack' = Front(stack)
    /\ hist' = Returned(Top.src)
    /\ UNCHANGED << ready_state, error, result, generation_id, threads, queue,
                    signals, ret, naborts, nerrors >>

Next ==
    \/ ReadAsArrayBuffer
    \/ ReadAsDataURL
    \/ ReadAsText
    \/ Abort
    \/ Abort_abort_returns
    \/ Abort_loadend_returns
    \/ perform_annotated_read_operation
    \/ queue_read_error
    \/ process_read
    \/ process_read_returns
    \/ process_read_data
    \/ process_read_data_returns
    \/ process_read_eof
    \/ process_read_eof_load_returns
    \/ process_read_eof_loadend_returns
    \/ process_read_error
    \/ process_read_error_error_returns
    \/ process_read_error_loadend_returns

Spec == Init /\ [][Next]_vars

(***************************************************************************)
(* One read from its acceptance to its end, over a wider range of blobs,   *)
(* types and labels: the values that dataurl_format and text_decode give.  *)
(***************************************************************************)
TYPE_charset_utf8 == STR_text_plain \o STR_semicolon \o STR_charset \o <<61>> \o STR_utf8
TYPE_charset_utf16be == STR_text_plain \o STR_semicolon \o STR_charset \o <<61>> \o STR_utf16be
TYPE_no_slash == <<112, 108, 97, 105, 110>>             \* "plain"
LABEL_UTF8_upper == <<85, 84, 70, 45, 56>>              \* "UTF-8"
LABEL_unknown == <<120, 45, 110, 111, 110, 101>>        \* "x-none"

CodecBytes ==
    { <<>>, <<65>>, <<65, 66>>, <<65, 66, 67>>, <<255, 254, 253, 252>>,
      <<65, 0, 66, 0>>, <<0, 65, 0, 66>>, <<195, 169>>, <<200, 65>>,
      <<239, 187, 191, 65>>, <<255, 254, 65, 0>>, <<254, 255, 0, 65>> }

CodecTypes ==
    { <<>>, STR_text_plain, TYPE_charset_utf8, TYPE_charset_utf16be, TYPE_no_slash }

CodecLabels == { None, Some(STR_utf16), Some(LABEL_UTF8_upper), Some(LABEL_unknown) }

CodecData ==
    { ReadMetaData(t, l, "ReadAsText") : t \in CodecTypes, l \in CodecLabels }
        \cup { ReadMetaData(t, None, f) :
                   t \in CodecTypes, f \in {"ReadAsDataUrl", "ReadAsArrayBuffer"} }

\* the reader just after its first read was accepted
InitCodec ==
    /\ ready_state = "Loading"
    /\ error = None
    /\ result = None
    /\ generation_id = 0
    /\ \E d \in CodecData, b \in CodecBytes :
           threads = << [gen_id |-> 0, data |-> d, blob_contents |-> b, pc |-> 1] >>
    /\ queue = <<>>
    /\ stack = <<>>
    /\ signals = <<>>
    /\ ret = "Ok"
    /\ naborts = 0
    /\ nerrors = 0
    /\ hist = [completed |-> {}, returned |-> {}, aborted |-> {},
               interfered |-> {}, abort_from |-> <<>>, failed |-> {}]

NextCodec ==
    \/ perform_annotated_read_operation
    \/ process_read
    \/ process_read_returns
    \/ process_read_data
    \/ process_read_data_returns
    \/ process_read_eof
    \/ process_read_eof_load_returns
    \/ process_read_eof_loadend_returns

SpecCodec == InitCodec /\ [][NextCodec]_vars

(***************************************************************************)
(* Vocabulary of the statements.                                           *)
(***************************************************************************)
\* the event types fired by the call src, in the order fired
SignalsOf(src) ==
    LET s == SelectSeq(signals, LAMBDA e : e.src = src)
    IN  [i \in 1..Len(s) |-> s[i].type]

Ops == 1..Len(threads)

\* this step is the script thread taking the task at the head of the queue
Replay == stack = <<>> /\ queue # <<>> /\ queue' = Tail(queue)

StaleReplay == Replay /\ Head(queue).gen_id # generation_id

LiveReplay(kind) ==
    Replay /\ Head(queue).task = kind /\ Head(queue).gen_id = generation_id

\* this step is a call of read (one that changes anything at all)
ReadCall == ret' # ret \/ Len(threads') # Len(threads)

ReadAccepted == Len(threads') > Len(threads)

AbortCall == naborts' > naborts

\* this step is a call of Abort going on after one of its events was handled
AbortResumes ==
    /\ stack # <<>>
    /\ Top.fn = "Abort"
    /\ Len(stack') <= Len(stack)
    /\ stack' # stack

\* the thread of operation i has tasks still to queue, or tasks of it wait
Queued(i) == \E k \in 1..Len(queue) : queue[k].op = i

Outstanding(i) == threads[i].pc <= Len(read_operation_tasks) \/ Queued(i)

\* the completion (or error) task of operation i has not been taken yet
CompletionPending(i) ==
    \/ threads[i].pc <= Len(read_operation_tasks)
    \/ \E k \in 1..Len(queue) :
           queue[k].op = i /\ queue[k].task \in {"ProcessReadEOF", "ProcessReadError"}

FullRead == <<"loadstart", "progress", "load", "loadend">>

\* C1: a task whose captured generation differs from the reader's is dropped:
\* ready_state, result, error, generation and the events fired are unchanged;
\* and the completion task of an operation aborted while Loading never
\* changes result.
C1_StaleTaskIsNoOp ==
    [][ Replay =>
          /\ (StaleReplay =>
                 /\ UNCHANGED << ready_state, result, error, generation_id, signals >>
                 /\ stack' = <<>>)
          /\ (Head(queue).task = "ProcessReadEOF" /\ Head(queue).op \in hist.aborted
                 => result' = result) ]_vars

\* an operation aborted while Loading whose three tasks have all been taken
C1_Witness ==
    \E i \in Ops :
        /\ i \in hist.aborted
        /\ threads[i].pc > Len(read_operation_tasks)
        /\ ~Queued(i)
        /\ nerrors = 0
        /\ stack = <<>>

\* C2: read called while Loading returns InvalidState and changes nothing:
\* no thread is spawned, no task queued, no event fired.
C2_ReadWhileLoadingRejected ==
    [][ (ready_state = "Loading" /\ ReadCall) =>
          /\ ret' = "InvalidState"
          /\ UNCHANGED << ready_state, generation_id, result, error, threads,
                          queue, stack, signals >> ]_vars

C2_Witness == ready_state = "Loading" /\ ret = "InvalidState"

\* C3: once a read has ended and no handler is under way, ready_state is
\* Done with exactly one of result and error set; the two are never both set.
C3_ExactlyOneOfResultError ==
    (stack = <<>> /\ ready_state = "Done") => ((result = None) # (error = None))

\* C4 as stated: a read whose completion task ran with its generation current
\* fires exactly loadstart, progress, load, loadend.
C4_SuccessfulReadSignals ==
    \A i \in hist.completed :
        OpSrc(i) \in hist.returned => SignalsOf(OpSrc(i)) = FullRead

\* C4 amended: such a read fires loadstart, progress, load, and then loadend
\* exactly when no listener of load called Abort or an accepted read.
C4_SuccessfulReadSignalsUnlessReentered ==
    \A i \in hist.completed :
        OpSrc(i) \in hist.returned =>
            SignalsOf(OpSrc(i)) =
                IF OpSrc(i) \in hist.interfered THEN Front(FullRead) ELSE FullRead

C4_Witness ==
    \E i \in hist.completed :
        /\ OpSrc(i) \in hist.returned
        /\ OpSrc(i) \notin hist.interfered
        /\ SignalsOf(OpSrc(i)) = FullRead

\* C5: with no handler under way, ready_state is Loading exactly when an
\* operation that captured the current generation has its completion pending.
C5_LoadingIffCurrentOperation ==
    stack = <<>> =>
        (ready_state = "Loading" <=>
            \E i \in Ops : threads[i].gen_id = generation_id /\ CompletionPending(i))

C7_ReadyStateTransitions ==
    /\ ready_state = "Empty"
    /\ [][ ready_state' # ready_state =>
              << ready_state, ready_state' >> \in
                  { <<"Empty", "Loading">>, <<"Loading", "Done">>, <<"Done", "Loading">> } ]_vars

\* a read started after an earlier one completed
C7_Witness == ready_state = "Loading" /\ hist.completed # {} /\ naborts = 0

\* C8: a read called in Done after an earlier read fired its loadend is
\* accepted, goes to Loading, and captures a generation other than that of
\* the completed read.
C8_RestartCapturesFreshGeneration ==
    [][ (/\ ReadCall
         /\ ready_state = "Done"
         /\ \E i \in hist.completed : SignalsOf(OpSrc(i)) = FullRead) =>
          /\ ret' = "Ok"
          /\ ready_state' = "Loading"
          /\ Len(threads') = Len(threads) + 1
          /\ \A i \in hist.completed :
                 SignalsOf(OpSrc(i)) = FullRead =>
                     Last(threads').gen_id # threads[i].gen_id ]_vars

\* C9: result is None right after Abort, after an error task of the current
\* generation, and after every accepted read, and it leaves None only by a
\* completion task of the current generation.
C9_ResultClearedByAbortErrorAndRead ==
    [][ /\ (AbortCall => result' = None)
        /\ (LiveReplay("ProcessReadError") => result' = None)
        /\ (ReadAccepted => result' = None)
        /\ (result = None /\ result' # None => LiveReplay("ProcessReadEOF")) ]_vars

\* C10: every call of Abort fires abort then loadend itself, whatever
\* ready_state was, and queues no task.
C10_AbortFiresAbortLoadend ==
    /\ [](\A k \in 1..naborts :
             SignalsOf(AbortSrc(k)) =
                 IF \E j \in 1..Len(stack) :
                        stack[j].src = AbortSrc(k) /\ stack[j].at = "abort"
                 THEN <<"abort">> ELSE <<"abort", "loadend">>)
    /\ [][ (AbortCall =>
               (/\ queue' = queue
                /\ signals' = Append(signals, [type |-> "abort", src |-> AbortSrc(naborts')])
                /\ Last(stack').src = AbortSrc(naborts')))
            /\
            (AbortResumes =>
               (/\ queue' = queue
                /\ signals' = IF Top.at = "abort"
                              THEN Append(signals, [type |-> "loadend", src |-> Top.src])
                              ELSE signals)) ]_vars

\* Abort called on a reader that never read, returned
C10_Witness ==
    \E k \in 1..naborts :
        /\ hist.abort_from[k] = "Empty"
        /\ AbortSrc(k) \in hist.returned
        /\ \E j \in 1..naborts : hist.abort_from[j] = "Loading" /\ AbortSrc(j) \in hist.returned

\* the read started by this step is of a blob whose bytes could not be read
ReadOfFailedSource == hist'.failed # hist.failed

\* this step takes the completion or error task of an operation whose blob
\* could not be read, its generation being the reader's
LiveEndOfFailedSource ==
    /\ Replay
    /\ Head(queue).gen_id = generation_id
    /\ Head(queue).op \in hist.failed
    /\ Head(queue).task \in {"ProcessReadEOF", "ProcessReadError"}

\* C11: a read of a blob whose bytes cannot be read is reported like an
\* abort is: read returns Ok, and the operation ends with ready_state Done,
\* error set, result None and the events error then loadend.
C11_ByteSourceFailureFiresError ==
    [][ /\ (ReadOfFailedSource => ret' = "Ok")
        /\ (LiveEndOfFailedSource =>
               (/\ ready_state' = "Done"
                /\ error' # None
                /\ result' = None
                /\ signals' = Append(signals,
                       [type |-> "error", src |-> OpSrc(Head(queue).op)]))) ]_vars

\* C19: reading a blob whose bytes cannot be read does not fail: read returns
\* Ok with ready_state Loading and a thread spawned over empty bytes, and the
\* operation completes as a read of an empty blob does: result is the value
\* of the empty bytes, error is left alone, and the events are those of a
\* completed read.
C19_FailedSourceReadsAsEmptyBlob ==
    /\ [][ /\ (ReadOfFailedSource =>
                  (/\ ret' = "Ok"
                   /\ ready_state' = "Loading"
                   /\ Len(threads') = Len(threads) + 1
                   /\ Last(threads').blob_contents = <<>>
                   /\ Last(threads').pc = 1
                   /\ UNCHANGED << error, result, queue, signals >>))
           /\ ((LiveEndOfFailedSource /\ Head(queue).task = "ProcessReadEOF") =>
                  (/\ Head(queue).blob_contents = <<>>
                   /\ ready_state' = "Done"
                   /\ result' = IF Head(queue).data.function = "ReadAsArrayBuffer"
                                THEN Some(ArrayBuffer(<<>>))
                                ELSE Some(process_read_eof_result(Head(queue).data, <<>>))
                   /\ error' = error
                   /\ signals' = Append(signals,
                          [type |-> "load", src |-> OpSrc(Head(queue).op)]))) ]_vars
    /\ [](\A i \in hist.failed \cap hist.completed :
             OpSrc(i) \in hist.returned =>
                 SignalsOf(OpSrc(i)) =
                     IF OpSrc(i) \in hist.interfered THEN Front(FullRead) ELSE FullRead)

\* a read of an unreadable blob ran to its end on a reader without error
C19_Witness ==
    \E i \in hist.failed \cap hist.completed :
        /\ OpSrc(i) \in hist.returned
        /\ SignalsOf(OpSrc(i)) = FullRead
        /\ result = Some(ArrayBuffer(<<>>))
        /\ error = None
        /\ ready_state = "Done"

\* the value of a character of the base64 alphabet
B64Value(c) ==
    IF c >= 65 /\ c <= 90 THEN c - 65
    ELSE IF c >= 97 /\ c <= 122 THEN c - 97 + 26
    ELSE IF c >= 48 /\ c <= 57 THEN c - 48 + 52
    ELSE IF c = 43 THEN 62
    ELSE IF c = 47 THEN 63 ELSE 0 - 1

\* the bytes a padded base64 text stands for (a text of whole quads)
RECURSIVE Base64Decode(_)
Base64Decode(s) ==
    IF Len(s) < 4 THEN <<>>
    ELSE LET n == B64Value(s[1]) * 262144 + B64Value(s[2]) * 4096
                      + (IF s[3] = 61 THEN 0 ELSE B64Value(s[3]) * 64)
                      + (IF s[4] = 61 THEN 0 ELSE B64Value(s[4]))
             three == << n \div 65536, (n \div 256) % 256, n % 256 >>
         IN  (IF s[3] = 61 THEN SubSeq(three, 1, 1)
              ELSE IF s[4] = 61 THEN SubSeq(three, 1, 2)
              ELSE three) \o Base64Decode(SubSeq(s, 5, Len(s)))

IsBase64Text(s) ==
    /\ Len(s) % 4 = 0
    /\ \A k \in 1..Len(s) :
           \/ B64Value(s[k]) >= 0
           \/ s[k] = 61 /\ k >= Len(s) - 1 /\ (k = Len(s) \/ s[Len(s)] = 61)

\* the one read of SpecCodec has set result
CodecDone(function) ==
    /\ hist.completed # {}
    /\ threads[1].data.function = function

DATA_BASE64 == <<100, 97, 116, 97, 58, 98, 97, 115, 101, 54, 52, 44>>

\* "data:text/plain;base64,QUI="
URL_text_plain_QUI ==
    <<100, 97, 116, 97, 58, 116, 101, 120, 116, 47, 112, 108, 97, 105, 110, 59,
      98, 97, 115, 101, 54, 52, 44, 81, 85, 73, 61>>

\* "data:base64,QUI="
URL_QUI == DATA_BASE64 \o <<81, 85, 73, 61>>

\* C13: the text of a data URL read is "data:base64," followed by the base64
\* of the bytes when the type is empty, and "data:" type ";base64," followed
\* by the base64 of the bytes otherwise; the bytes 0x41 0x42 of type
\* text/plain give "data:text/plain;base64,QUI=" and with no type
\* "data:base64,QUI=".
C13_DataUrlFormat ==
    CodecDone("ReadAsDataUrl") =>
        LET t == threads[1].data.blobtype
            b == threads[1].blob_contents
            head == IF t = <<>> THEN DATA_BASE64
                    ELSE <<100, 97, 116, 97, 58>> \o t \o <<59>> \o SubSeq(DATA_BASE64, 6, 12)
            url == result[1].val
            b64 == SubSeq(url, Len(head) + 1, Len(url))
        IN  /\ result[1].tag = "String"
            /\ HasPrefix(url, head)
            /\ IsBase64Text(b64)
            /\ Len(b64) = 4 * ((Len(b) + 2) \div 3)
            /\ Base64Decode(b64) = b
            /\ (b = <<65, 66>> /\ t = STR_text_plain => url = URL_text_plain_QUI)
            /\ (b = <<65, 66>> /\ t = <<>> => url = URL_QUI)

\* both data URLs of the bytes 0x41 0x42 have been produced (here the typed one)
C13_Witness ==
    /\ CodecDone("ReadAsDataUrl")
    /\ threads[1].blob_contents = <<65, 66>>
    /\ threads[1].data.blobtype = STR_text_plain
    /\ result = Some(String(URL_text_plain_QUI))
    /\ stack = <<>>

\* the row of the encoding table a label (or charset) of the inputs names
NamedEncoding(l) ==
    IF l = STR_utf16 THEN "UTF-16LE"
    ELSE IF l = STR_utf16be THEN "UTF-16BE"
    ELSE IF l = STR_utf8 \/ l = LABEL_UTF8_upper THEN "UTF-8"
    ELSE "none"

\* the charset a type of the inputs declares
DeclaredCharset(t) ==
    IF t = TYPE_charset_utf8 THEN STR_utf8
    ELSE IF t = TYPE_charset_utf16be THEN STR_utf16be
    ELSE <<>>

\* label first, then the charset of the type, then UTF-8
ResolvedEncoding(t, l) ==
    IF l # None /\ NamedEncoding(l[1]) # "none" THEN NamedEncoding(l[1])
    ELSE IF NamedEncoding(DeclaredCharset(t)) # "none" THEN NamedEncoding(DeclaredCharset(t))
    ELSE "UTF-8"

\* the encoding whose byte order mark the bytes start with
ByteOrderMark(b) ==
    IF HasPrefix(b, <<239, 187, 191>>) THEN "UTF-8"
    ELSE IF HasPrefix(b, <<255, 254>>) THEN "UTF-16LE"
    ELSE IF HasPrefix(b, <<254, 255>>) THEN "UTF-16BE"
    ELSE "none"

AfterMark(b) ==
    IF ByteOrderMark(b) = "none" THEN b
    ELSE IF ByteOrderMark(b) = "UTF-8" THEN SubSeq(b, 4, Len(b))
    ELSE SubSeq(b, 3, Len(b))

\* C12 as stated: for every label, type and bytes the text of a text read is
\* the bytes decoded in the encoding of the label if the label is in the
\* table, else in the charset the type declares if that is in the table,
\* else in UTF-8 (a byte order mark of that same encoding aside); the label
\* utf-16 with the type text/plain;charset=utf-8 decodes as UTF-16; and a
\* text is always produced.
C12_LabelThenMimeThenUtf8 ==
    CodecDone("ReadAsText") =>
        LET t == threads[1].data.blobtype
            l == threads[1].data.label
            b == threads[1].blob_contents
            enc == ResolvedEncoding(t, l)
        IN  /\ result # None
            /\ result[1].tag = "String"
            /\ result[1].val =
                   decode_as(enc, IF ByteOrderMark(b) = enc THEN AfterMark(b) ELSE b)

\* C12 amended: the same, except that bytes starting with a byte order mark
\* of UTF-8, UTF-16LE or UTF-16BE are decoded in the encoding of that mark
\* (the mark removed), whatever the label and the type say.
C12_LabelThenMimeThenUtf8UnlessMark ==
    CodecDone("ReadAsText") =>
        LET t == threads[1].data.blobtype
            l == threads[1].data.label
            b == threads[1].blob_contents
            enc == IF ByteOrderMark(b) # "none" THEN ByteOrderMark(b)
                   ELSE ResolvedEncoding(t, l)
        IN  /\ result # None
            /\ result[1].tag = "String"
            /\ result[1].val = decode_as(enc, AfterMark(b))
            /\ (l = Some(STR_utf16) /\ t = TYPE_charset_utf8 /\ b = <<65, 0, 66, 0>> =>
                    result[1].val = <<65, 66>>)
            /\ (l = Some(LABEL_unknown) /\ t = TYPE_charset_utf16be /\ b = <<0, 65, 0, 66>> =>
                    result[1].val = <<65, 66>>)
            /\ (l = None /\ t = TYPE_no_slash /\ b = <<195, 169>> =>
                    result[1].val = <<233>>)

\* the label utf-16 won over the charset utf-8 of the type
C12_Witness ==
    /\ CodecDone("ReadAsText")
    /\ threads[1].data.label = Some(STR_utf16)
    /\ threads[1].data.blobtype = TYPE_charset_utf8
    /\ threads[1].blob_contents = <<65, 0, 66, 0>>
    /\ result = Some(String(<<65, 66>>))

\* every task of every read so far has been queued, taken and handled
AllTasksDelivered ==
    /\ stack = <<>>
    /\ queue = <<>>
    /\ \A i \in Ops : threads[i].pc > Len(read_operation_tasks)

\* C14: every accepted read is followed by ready_state Done, whatever the
\* listeners call meanwhile: once the tasks of all the reads have been
\* delivered and handled, the reader is not left in Loading.
C14_AcceptedReadReachesDone ==
    (threads # <<>> /\ AllTasksDelivered) => ready_state = "Done"

\* this step is the handler fn going on after its event at was handled
Resumes(fn, at) ==
    /\ AtDispatch(fn, at)
    /\ stack' # stack
    /\ Len(stack') <= Len(stack)

LoadendFiredBy(src) == signals' = Append(signals, [type |-> "loadend", src |-> src])

\* C15 as stated: when process_read_eof goes on after load with its
\* generation current, ready_state is not Loading and loadend is fired: the
\* check of step 8.4 never holds loadend back.
C15_LoadendNeverSuppressed ==
    [][ (Resumes("process_read_eof", "load") /\ Top.gen_id = generation_id) =>
            (ready_state # "Loading" /\ LoadendFiredBy(Top.src)) ]_vars

\* C15 amended: when process_read_eof goes on after load with its generation
\* current, ready_state is Loading exactly if a listener of that load had a
\* read accepted; then no loadend is fired and the generation is incremented
\* at once; otherwise loadend is fired, and the generation is incremented
\* after it if it is then still current.
C15_LoadendSuppressedOnlyByRestart ==
    [][ /\ (Resumes("process_read_eof", "load") /\ Top.gen_id = generation_id) =>
               (/\ (ready_state = "Loading") <=> (Top.src \in hist.interfered)
                /\ IF ready_state = "Loading"
                   THEN /\ signals' = signals
                        /\ generation_id' = generation_id + 1
                        /\ stack' = Front(stack)
                   ELSE /\ LoadendFiredBy(Top.src)
                        /\ generation_id' = generation_id
                        /\ Len(stack') = Len(stack))
        /\ (Resumes("process_read_eof", "loadend") /\ Top.gen_id = generation_id) =>
               (generation_id' = generation_id + 1 /\ signals' = signals) ]_vars

\* a read restarted by a listener of load: no loadend of the first read
C15_Witness ==
    \E i \in hist.completed :
        /\ OpSrc(i) \in hist.returned
        /\ OpSrc(i) \in hist.interfered
        /\ SignalsOf(OpSrc(i)) = Front(FullRead)
        /\ generation_id = threads[i].gen_id + 1
        /\ ready_state = "Loading"
        /\ naborts = 0

\* this step is the last one of a completion or error handler that passed
\* its first check of the generation
HandlerEnds ==
    /\ stack # <<>>
    /\ Top.fn \in {"process_read_eof", "process_read_error"}
    /\ stack' = Front(stack)

\* the steps that leave the generation alone: calls of read, the loadstart
\* and progress tasks, and every stale task
GenerationKept ==
    /\ (ReadCall => generation_id' = generation_id)
    /\ (Replay /\ Head(queue).task \in {"ProcessRead", "ProcessReadData"} =>
           generation_id' = generation_id)
    /\ (StaleReplay => generation_id' = generation_id)

\* C16 as stated: the generation never decreases; every completion and error
\* handler that passed its check raises it by exactly 1 (by its own last
\* step, or at least counted from the generation it captured to its end),
\* every call of Abort raises it by exactly 1, and calls of read, loadstart
\* and progress tasks and stale tasks leave it unchanged.
C16_GenerationOncePerOperation ==
    [][ /\ generation_id' >= generation_id
        /\ (HandlerEnds =>
               (\/ generation_id' = generation_id + 1
                \/ generation_id' = Top.gen_id + 1))
        /\ (AbortCall => generation_id' = generation_id + 1)
        /\ GenerationKept ]_vars

\* C16 amended: the generation never decreases and moves by 1 at a time;
\* every call of Abort raises it by exactly 1; a completion or error handler
\* that passed its check raises it by exactly 1 at its end if the generation
\* is then still the one it captured, and leaves it alone if a listener
\* changed it meanwhile; nothing else changes it.
C16_GenerationOncePerUninterruptedOperation ==
    [][ /\ generation_id' \in {generation_id, generation_id + 1}
        /\ (HandlerEnds =>
               generation_id' = IF Top.gen_id = generation_id
                                THEN generation_id + 1 ELSE generation_id)
        /\ (AbortCall => generation_id' = generation_id + 1)
        /\ (generation_id' # generation_id => (HandlerEnds \/ AbortCall))
        /\ GenerationKept ]_vars

\* one read completed undisturbed and one call of Abort: two increments
C16_Witness ==
    /\ stack = <<>>
    /\ naborts = 1
    /\ AbortSrc(1) \in hist.returned
    /\ generation_id = 2
    /\ \E i \in hist.completed :
           /\ OpSrc(i) \in hist.returned
           /\ OpSrc(i) \notin hist.interfered
           /\ i \notin hist.aborted

\* C17: a call of Abort changes ready_state only from Loading, to Done; from
\* Empty or Done it leaves it.  In every state it sets result to None and
\* error to AbortError and raises the generation by one; the rest of the
\* call (its two events) changes none of the four.
C17_AbortFrameEffect ==
    [][ /\ (AbortCall =>
               (/\ ready_state' = IF ready_state = "Loading" THEN "Done" ELSE ready_state
                /\ result' = None
                /\ error' = Some("AbortError")
                /\ generation_id' = generation_id + 1))
        /\ (AbortResumes =>
               UNCHANGED << ready_state, result, error, generation_id >>) ]_vars

\* Abort called on a reader whose read had completed, and on one in Empty
C17_Witness ==
    /\ stack = <<>>
    /\ naborts = 2
    /\ hist.abort_from = <<"Empty", "Done">>
    /\ AbortSrc(2) \in hist.returned
    /\ ready_state = "Done"
    /\ result = None
    /\ error = Some("AbortError")
    /\ generation_id = 3

\* what process_read_error does first, and what a stale error task does
ErrorTaskTaken ==
    /\ (LiveReplay("ProcessReadError") =>
           (/\ ready_state' = "Done"
            /\ result' = None
            /\ error' = Some(Head(queue).error)
            /\ signals' = Append(signals,
                   [type |-> "error", src |-> OpSrc(Head(queue).op)])
            /\ generation_id' = generation_id))
    /\ (StaleReplay /\ Head(queue).task = "ProcessReadError" =>
           (/\ UNCHANGED << ready_state, result, error, generation_id, signals >>
            /\ stack' = <<>>))

\* C18 as stated: an error task whose generation is the reader's sets
\* ready_state Done, result None and error, fires error and then loadend and
\* raises the generation by one; one whose generation differs does nothing.
C18_ErrorTaskFiresErrorLoadend ==
    [][ /\ ErrorTaskTaken
        /\ (Resumes("process_read_error", "error") => LoadendFiredBy(Top.src))
        /\ (Resumes("process_read_error", "loadend") =>
               generation_id' = generation_id + 1) ]_vars

\* C18 amended: the same, except that loadend is fired only if the
\* generation is unchanged when the dispatch of error returns, and the
\* generation is raised only if it is unchanged when the dispatch of loadend
\* returns; otherwise the handler ends there and changes nothing more.
C18_ErrorTaskFiresErrorLoadendUnlessAborted ==
    [][ /\ ErrorTaskTaken
        /\ (Resumes("process_read_error", "error") =>
               IF Top.gen_id = generation_id
               THEN LoadendFiredBy(Top.src) /\ generation_id' = generation_id
               ELSE /\ stack' = Front(stack)
                    /\ UNCHANGED << ready_state, result, error, generation_id, signals >>)
        /\ (Resumes("process_read_error", "loadend") =>
               (/\ generation_id' = IF Top.gen_id = generation_id
                                    THEN generation_id + 1 ELSE generation_id
                /\ stack' = Front(stack)
                /\ UNCHANGED << ready_state, result, error, signals >>)) ]_vars

\* a read ended by an error task, undisturbed
C18_Witness ==
    \E i \in Ops :
        /\ SignalsOf(OpSrc(i)) = <<"loadstart", "progress", "error", "loadend">>
        /\ OpSrc(i) \in hist.returned
        /\ ready_state = "Done"
        /\ result = None
        /\ error = Some("NotReadableError")
        /\ generation_id = threads[i].gen_id + 1

\* the events fired since the last event of the call src
RECURSIVE LastIndexOf(_, _)
LastIndexOf(src, n) ==
    IF n = 0 THEN 0
    ELSE IF signals[n].src = src THEN n ELSE LastIndexOf(src, n - 1)

SignalsSince(src) == SubSeq(signals, LastIndexOf(src, Len(signals)) + 1, Len(signals))

\* this step is a completion or error handler finding, after its load or
\* error event was handled, that the generation has changed
ResumesAborted ==
    /\ (Resumes("process_read_eof", "load") \/ Resumes("process_read_error", "error"))
    /\ Top.gen_id # generation_id

\* C20: a completion or error handler that finds the generation changed after
\* its load (or error) event ends there: it fires no loadend, raises the
\* generation no further and changes nothing else.  The events fired since
\* its load (or error) are then an abort and a loadend for each call of Abort
\* made meanwhile; after one such call the generation is one above the one
\* the operation captured and the events are abort, then a single loadend.
C20_AbortInListenerSkipsRest ==
    [][ ResumesAborted =>
          /\ stack' = Front(stack)
          /\ UNCHANGED << ready_state, result, error, generation_id, signals >>
          /\ LET since == SignalsSince(Top.src) IN
              /\ Len(since) = 2 * (generation_id - Top.gen_id)
              /\ \A k \in 1..Len(since) : since[k].src[1] = "abort"
              /\ (generation_id = Top.gen_id + 1 =>
                     (/\ since[1].type = "abort"
                      /\ since[2].type = "loadend"
                      /\ since[1].src = since[2].src)) ]_vars

\* a read whose load listener called Abort: load, abort, loadend and one
\* increment
C20_Witness ==
    /\ stack = <<>>
    /\ Len(threads) = 1
    /\ naborts = 1
    /\ 1 \in hist.completed
    /\ OpSrc(1) \in hist.returned
    /\ [k \in 1..Len(signals) |-> signals[k].type] =
           <<"loadstart", "progress", "load", "abort", "loadend">>
    /\ generation_id = threads[1].gen_id + 1
    /\ error = Some("AbortError")

====
